---- MODULE Spec2Model ----
(***************************************************************************)
(* Order / offer / inventory consistency of the storefront backend.        *)
(*                                                                         *)
(* Every HTTP handler is one action: requests are served one at a time,    *)
(* except in SpecRace, where order creation is split at its awaits.        *)
(* JavaScript numbers that carry money are kept in fixed point with two    *)
(* decimals (cents): Num(n) = n * Scale.  The request inputs are chosen so *)
(* that every product and quotient the handlers compute is exact in cents. *)
(***************************************************************************)
EXTENDS Integers, Sequences, FiniteSets, TLC

\* ------------------------------------------------------------------ bounds
MaxOrders == 2
MaxOffers == 1
MaxTime   == 2
InitStock == 2
MaxStock  == 3

\* ------------------------------------------------------- fixed-point money
Scale == 100
Num(n) == n * Scale
Mul(a, b) == (a * b) \div Scale

TaxRate == 10
FreeShippingOver == 5000
ShippingFee == 599

\* --------------------------------------------------------------- universes
ProductIds == {"p1", "p2"}
MissingProduct == "px"
Statuses == {"PENDING", "PROCESSING", "SHIPPED", "DELIVERED", "CANCELLED"}
NoStatus == "undefined"
OfferTypes == {"PERCENTAGE", "FIXED_AMOUNT", "FREE_SHIPPING"}
NoCode == <<>>
NoOffer == 0
Null == 0

\* A rating is the quotient num / den in lowest terms.
Ratio(n, d) ==
  LET g == CHOOSE k \in 1..d : /\ n % k = 0 /\ d % k = 0
                               /\ \A m \in (k + 1)..d : n % m # 0 \/ d % m # 0
  IN [num |-> n \div g, den |-> d \div g]
NoRating == [num |-> 0, den |-> 1]

\* The users table, and the request without a usable bearer token.
Users == {"u1", "u2", "admin"}
Anonymous == "null"
Role(u) == IF u = "admin" THEN "ADMIN" ELSE "USER"

\* products, orders, offers, reviews: the tables; authUser: the user the bearer
\* token of the requests resolves to; inflight: the order creations that have
\* read and checked the stock and not yet written; last: the request served
\* last and its outcome.
VARIABLES products, orders, nextOrderId, offers, nextOfferId, now, last,
          reviews, authUser, inflight

vars == <<products, orders, nextOrderId, offers, nextOfferId, now, last,
          reviews, authUser, inflight>>

\* ---------------------------------------------------------- authentication
\* verifyAuth yields the user of the token, or null.
requireAuth(u) == u # Anonymous

requireAdmin(u) == requireAuth(u) /\ Role(u) = "ADMIN"

\* ----------------------------------------------------------------- strings
\* String.prototype.toUpperCase over the letters the codes are drawn from.
UpperChar(c) == IF c = "a" THEN "A" ELSE IF c = "b" THEN "B" ELSE c

toUpperCase(s) == [i \in DOMAIN s |-> UpperChar(s[i])]

\* ------------------------------------------------------------ small helpers
RECURSIVE SumSeq(_)
SumSeq(s) == IF s = <<>> THEN 0 ELSE Head(s) + SumSeq(Tail(s))

\* Sum of the quantities of the items of a list that refer to product p.
QtyOf(items, p) ==
  SumSeq([i \in DOMAIN items |-> IF items[i].productId = p THEN items[i].quantity ELSE 0])

\* [mutant] every line moves the stock by one unit, whatever its quantity
AdjustStock_ByOne(prods, items, sign) ==
  [p \in DOMAIN prods |->
     [prods[p] EXCEPT !.stock =
        @ + sign * Cardinality({i \in DOMAIN items : items[i].productId = p})]]

\* stock: { increment: q } / { decrement: q } for every item of the list
\* (sign = 1 restores, sign = -1 deducts); each update is atomic per row.
AdjustStock(prods, items, sign) ==
  [p \in DOMAIN prods |->
     [prods[p] EXCEPT !.stock = @ + sign * QtyOf(items, p)]]

\* ----------------------------------------------------------- offer evaluator
\* [mutant] the end of the window is not looked at
OfferMatches_NoEnd(o, code, t) ==
  /\ o.code = toUpperCase(code)
  /\ o.isActive
  /\ o.startsAt <= t
  /\ (o.maxUses = Null \/ o.usedCount < o.maxUses)

\* [mutant] the usage cap is compared with <=
OfferMatches_CapInclusive(o, code, t) ==
  /\ o.code = toUpperCase(code)
  /\ o.isActive
  /\ o.startsAt <= t
  /\ o.endsAt >= t
  /\ (o.maxUses = Null \/ o.usedCount <= o.maxUses)

\* where-clause of db.offer.findFirst in validateAndApplyOffer
OfferMatches(o, code, t) ==
  /\ o.code = toUpperCase(code)
  /\ o.isActive
  /\ o.startsAt <= t
  /\ o.endsAt >= t
  /\ (o.maxUses = Null \/ o.usedCount < o.maxUses)

\* switch (offer.type)
DiscountOf(o, cartTotal) ==
  CASE o.type = "PERCENTAGE"    -> Mul(cartTotal, o.value \div 100)
    [] o.type = "FIXED_AMOUNT"  -> IF o.value < cartTotal THEN o.value ELSE cartTotal
    [] o.type = "FREE_SHIPPING" -> 0
    [] OTHER                    -> 0

NoDiscount(cartTotal) ==
  [discount |-> 0, finalPrice |-> cartTotal, offer |-> NoOffer]

\* [mutant] the products the offer is scoped to are not looked at
validateAndApplyOffer_Unscoped(offs, offerCode, cartTotal, productIds, t) ==
  LET found == {id \in DOMAIN offs : OfferMatches(offs[id], offerCode, t)}
  IN IF found = {} THEN NoDiscount(cartTotal)
     ELSE LET id == CHOOSE x \in found : TRUE
              offer == offs[id]
          IN IF offer.minAmount # Null /\ cartTotal < offer.minAmount
               THEN NoDiscount(cartTotal)
             ELSE [discount   |-> DiscountOf(offer, cartTotal),
                   finalPrice |-> cartTotal - DiscountOf(offer, cartTotal),
                   offer      |-> id]

validateAndApplyOffer(offs, offerCode, cartTotal, productIds, t) ==
  LET found == {id \in DOMAIN offs : OfferMatches(offs[id], offerCode, t)}
  IN IF found = {} THEN NoDiscount(cartTotal)
     ELSE LET id == CHOOSE x \in found : TRUE
              offer == offs[id]
          IN IF offer.minAmount # Null /\ cartTotal < offer.minAmount
               THEN NoDiscount(cartTotal)
             ELSE IF /\ offer.productIds # {}
                     /\ \A i \in DOMAIN productIds : productIds[i] \notin offer.productIds
               THEN NoDiscount(cartTotal)
             ELSE [discount   |-> DiscountOf(offer, cartTotal),
                   finalPrice |-> cartTotal - DiscountOf(offer, cartTotal),
                   offer      |-> id]

\* [mutant] the update fails and the error is swallowed
incrementOfferUsage_Swallowed(offs, offerId) == offs

incrementOfferUsage(offs, offerId) ==
  IF offerId \in DOMAIN offs
    THEN [offs EXCEPT ![offerId].usedCount = @ + 1]
    ELSE offs

\* ------------------------------------------------------------ order creation
\* [mutant] the lookup does not filter on isActive
FoundProducts_AnyActivity(prods, items) ==
  {p \in DOMAIN prods : \E i \in DOMAIN items : items[i].productId = p}

\* db.product.findMany({ where: { id: { in: productIds }, isActive: true } })
FoundProducts(prods, items) ==
  {p \in DOMAIN prods :
     prods[p].isActive /\ \E i \in DOMAIN items : items[i].productId = p}

\* [mutant] the products found are counted against the distinct ids asked for
SomeUnavailable_DistinctIds(prods, items) ==
  Cardinality(FoundProducts(prods, items))
    # Cardinality({items[i].productId : i \in DOMAIN items})

\* products.length !== productIds.length
SomeUnavailable(prods, items) ==
  Cardinality(FoundProducts(prods, items)) # Len(items)

\* [mutant] the check only asks for a product that is not sold out
InsufficientStock_SoldOutOnly(prods, items) ==
  \E i \in DOMAIN items :
     /\ items[i].productId \in DOMAIN prods
     /\ prods[items[i].productId].stock < 1

\* product && product.stock < item.quantity, for some item
InsufficientStock(prods, items) ==
  \E i \in DOMAIN items :
     /\ items[i].productId \in FoundProducts(prods, items)
     /\ prods[items[i].productId].stock < items[i].quantity

OrderItems(items) ==
  [i \in DOMAIN items |->
     [productId |-> items[i].productId,
      quantity  |-> items[i].quantity,
      price     |-> items[i].price,
      total     |-> items[i].price * items[i].quantity]]

Subtotal(items) == SumSeq([i \in DOMAIN items |-> items[i].price * items[i].quantity])

Tax(subtotal) == Mul(subtotal, TaxRate)

\* [mutant] free shipping from 50 on, not over 50
Shipping_FromThreshold(subtotal) == IF subtotal >= FreeShippingOver THEN 0 ELSE ShippingFee

Shipping(subtotal) == IF subtotal > FreeShippingOver THEN 0 ELSE ShippingFee

Total(subtotal, discount) == subtotal - discount + Tax(subtotal) + Shipping(subtotal)

\* Result of the offer step of the create handler: no code, no lookup.
OfferResult(offs, offerCode, subtotal, items, t) ==
  IF offerCode # NoCode
    THEN validateAndApplyOffer(offs, offerCode, subtotal,
                               [i \in DOMAIN items |-> items[i].productId], t)
    ELSE NoDiscount(subtotal)

\* db.order.create: the status column takes its default, PENDING.
NewOrder(items, offerResult) ==
  LET subtotal == Subtotal(items)
  IN [status   |-> "PENDING",
      items    |-> OrderItems(items),
      offerId  |-> offerResult.offer,
      subtotal |-> subtotal,
      discount |-> offerResult.discount,
      tax      |-> Tax(subtotal),
      shipping |-> Shipping(subtotal),
      total    |-> Total(subtotal, offerResult.discount)]

\* What an order update does to the cancelled/non-cancelled state of the order.
Edge(req, prev) ==
  CASE req = "CANCELLED" /\ prev # "CANCELLED" -> "cancel"
    [] req = "CANCELLED" /\ prev = "CANCELLED" -> "recancel"
    [] req = NoStatus    /\ prev = "CANCELLED" -> "silent"
    [] req \in Statuses \ {"CANCELLED"} /\ prev = "CANCELLED" -> "reinstate"
    [] OTHER -> "move"

\* The request served last and its outcome (observation only).
Last(op, res, edge) ==
  [op |-> op, res |-> res, edge |-> edge, code |-> NoCode,
   cartTotal |-> 0, calc |-> NoDiscount(0)]

\* POST /orders
OrderPost(items, offerCode) ==
  IF ~requireAuth(authUser)
    THEN /\ last' = Last("orderPost", "unauthenticated", "none")
         /\ UNCHANGED <<reviews, authUser, inflight, products, orders, nextOrderId, offers, nextOfferId, now>>
  ELSE IF SomeUnavailable(products, items)
    THEN /\ last' = Last("orderPost", "unavailable", "none")
         /\ UNCHANGED <<reviews, authUser, inflight, products, orders, nextOrderId, offers, nextOfferId, now>>
  ELSE IF InsufficientStock(products, items)
    THEN /\ last' = Last("orderPost", "insufficient", "none")
         /\ UNCHANGED <<reviews, authUser, inflight, products, orders, nextOrderId, offers, nextOfferId, now>>
  ELSE LET offerResult == OfferResult(offers, offerCode, Subtotal(items), items, now)
       IN /\ nextOrderId <= MaxOrders
          /\ orders' = [id \in DOMAIN orders \cup {nextOrderId} |->
                          IF id = nextOrderId THEN NewOrder(items, offerResult)
                                              ELSE orders[id]]
          /\ nextOrderId' = nextOrderId + 1
          /\ products' = AdjustStock(products, items, -1)
          /\ offers' = IF offerResult.offer # NoOffer
                         THEN incrementOfferUsage(offers, offerResult.offer)
                         ELSE offers
          /\ last' = [Last("orderPost", "created", "none")
                         EXCEPT !.code = offerCode, !.cartTotal = Subtotal(items),
                                !.calc = offerResult]
          /\ UNCHANGED <<reviews, authUser, inflight, nextOfferId, now>>

\* -------------------------------------------------------------- order update
\* [mutant] the previous status is not looked at
IsCancellation_Unguarded(req, prev) == req = "CANCELLED"

\* validatedData.status === 'CANCELLED' && existingOrder.status !== 'CANCELLED'
IsCancellation(req, prev) == req = "CANCELLED" /\ prev # "CANCELLED"

\* existingOrder.status === 'CANCELLED' && validatedData.status !== 'CANCELLED'
IsReinstatement(req, prev) == prev = "CANCELLED" /\ req # "CANCELLED"

\* data: validatedData -- an absent status leaves the stored one in place
UpdatedStatus(req, prev) == IF req = NoStatus THEN prev ELSE req

\* stockChecks.some(check => !check)
ReinstateCheckFails(prods, items) ==
  \E i \in DOMAIN items :
     \/ items[i].productId \notin DOMAIN prods
     \/ prods[items[i].productId].stock < items[i].quantity

WithinCap(prods) == \A p \in DOMAIN prods : prods[p].stock <= MaxStock

\* [mutant] the schema lets every status through
StatusAccepted_Any(req) == TRUE

\* orderUpdateSchema: status is one of the enum, or absent
StatusAccepted(req) == req \in Statuses \cup {NoStatus}

\* PUT /orders/{id}
OrderPut(id, req) ==
  IF ~requireAdmin(authUser)
    THEN /\ last' = Last("orderPut", IF requireAuth(authUser) THEN "forbidden"
                                                            ELSE "unauthenticated", "none")
         /\ UNCHANGED <<reviews, authUser, inflight, products, orders, nextOrderId, offers, nextOfferId, now>>
  ELSE IF ~StatusAccepted(req)
    THEN /\ last' = Last("orderPut", "invalid", "none")
         /\ UNCHANGED <<reviews, authUser, inflight, products, orders, nextOrderId, offers, nextOfferId, now>>
  ELSE IF id \notin DOMAIN orders
    THEN /\ last' = Last("orderPut", "notFound", "none")
         /\ UNCHANGED <<reviews, authUser, inflight, products, orders, nextOrderId, offers, nextOfferId, now>>
  ELSE LET existingOrder == orders[id]
           restored == IF IsCancellation(req, existingOrder.status)
                         THEN AdjustStock(products, existingOrder.items, 1)
                         ELSE products
       IN /\ WithinCap(restored)
          /\ products' = restored
          /\ orders' = [orders EXCEPT ![id].status = UpdatedStatus(req, @)]
          /\ last' = Last("orderPut", "updated", Edge(req, existingOrder.status))
          /\ UNCHANGED <<reviews, authUser, inflight, nextOrderId, offers, nextOfferId, now>>

\* PUT /admin/orders/{id}
AdminOrderPut(id, req) ==
  IF ~StatusAccepted(req)
    THEN /\ last' = Last("adminOrderPut", "invalid", "none")
         /\ UNCHANGED <<reviews, authUser, inflight, products, orders, nextOrderId, offers, nextOfferId, now>>
  ELSE IF ~requireAdmin(authUser)
    THEN /\ last' = Last("adminOrderPut", IF requireAuth(authUser) THEN "forbidden"
                                                       ELSE "unauthenticated", "none")
         /\ UNCHANGED <<reviews, authUser, inflight, products, orders, nextOrderId, offers, nextOfferId, now>>
  ELSE IF id \notin DOMAIN orders
    THEN /\ last' = Last("adminOrderPut", "notFound", "none")
         /\ UNCHANGED <<reviews, authUser, inflight, products, orders, nextOrderId, offers, nextOfferId, now>>
  ELSE LET existingOrder == orders[id]
           restored == IF IsCancellation(req, existingOrder.status)
                         THEN AdjustStock(products, existingOrder.items, 1)
                         ELSE products
       IN IF /\ IsReinstatement(req, existingOrder.status)
             /\ ReinstateCheckFails(restored, existingOrder.items)
            THEN /\ last' = Last("adminOrderPut", "insufficient",
                                 Edge(req, existingOrder.status))
                 /\ UNCHANGED <<reviews, authUser, inflight, products, orders, nextOrderId, offers, nextOfferId, now>>
          ELSE LET deducted == IF IsReinstatement(req, existingOrder.status)
                                 THEN AdjustStock(restored, existingOrder.items, -1)
                                 ELSE restored
               IN /\ WithinCap(deducted)
                  /\ products' = deducted
                  /\ orders' = [orders EXCEPT ![id].status = UpdatedStatus(req, @)]
                  /\ last' = Last("adminOrderPut", "updated",
                                  Edge(req, existingOrder.status))
                  /\ UNCHANGED <<reviews, authUser, inflight, nextOrderId, offers, nextOfferId, now>>

\* [mutant] every order may be deleted
NotDeletable_Unguarded(existingOrder) == FALSE

\* existingOrder.status !== 'CANCELLED'
NotDeletable(existingOrder) == existingOrder.status # "CANCELLED"

\* db.order.delete: the order row goes, and with it the order items it owns
\* (the relation of OrderItem to Order cascades on delete).
CascadeDelete(ords, id) == [o \in DOMAIN ords \ {id} |-> ords[o]]

\* DELETE /orders/{id}
OrderDelete(id) ==
  IF ~requireAdmin(authUser)
    THEN /\ last' = Last("orderDelete", IF requireAuth(authUser) THEN "forbidden"
                                                       ELSE "unauthenticated", "none")
         /\ UNCHANGED <<reviews, authUser, inflight, products, orders, nextOrderId, offers, nextOfferId, now>>
  ELSE IF id \notin DOMAIN orders
    THEN /\ last' = Last("orderDelete", "notFound", "none")
         /\ UNCHANGED <<reviews, authUser, inflight, products, orders, nextOrderId, offers, nextOfferId, now>>
  ELSE IF NotDeletable(orders[id])
    THEN /\ last' = Last("orderDelete", "notCancelled", "none")
         /\ UNCHANGED <<reviews, authUser, inflight, products, orders, nextOrderId, offers, nextOfferId, now>>
  ELSE /\ orders' = CascadeDelete(orders, id)
       /\ last' = Last("orderDelete", "deleted", "none")
       /\ UNCHANGED <<reviews, authUser, inflight, products, nextOrderId, offers, nextOfferId, now>>

\* ------------------------------------------------------------------- offers
\* offerSchema / offerUpdateSchema: what zod lets through, field by field
SchemaAccepts(data) ==
  /\ "code" \in DOMAIN data => Len(data.code) >= 1
  /\ "type" \in DOMAIN data => data.type \in OfferTypes
  /\ "value" \in DOMAIN data => data.value > 0
  /\ "minAmount" \in DOMAIN data => data.minAmount > 0
  /\ "maxUses" \in DOMAIN data => data.maxUses > 0
  /\ "isActive" \in DOMAIN data => data.isActive \in BOOLEAN
  /\ "startsAt" \in DOMAIN data => data.startsAt \in Nat
  /\ "endsAt" \in DOMAIN data => data.endsAt \in Nat

\* A field the payload leaves out is stored as null (isActive defaults to true).
FieldOr(data, f, default) == IF f \in DOMAIN data THEN data[f] ELSE default

\* POST /offers
OfferPost(data) ==
  IF ~SchemaAccepts(data) \/ ~({"code", "type", "value", "startsAt", "endsAt"} \subseteq DOMAIN data)
    THEN /\ last' = Last("offerPost", "invalid", "none")
         /\ UNCHANGED <<reviews, authUser, inflight, products, orders, nextOrderId, offers, nextOfferId, now>>
  ELSE IF \E id \in DOMAIN offers : offers[id].code = data.code
    THEN /\ last' = Last("offerPost", "duplicate", "none")
         /\ UNCHANGED <<reviews, authUser, inflight, products, orders, nextOrderId, offers, nextOfferId, now>>
  ELSE IF data.endsAt <= data.startsAt
    THEN /\ last' = Last("offerPost", "badDates", "none")
         /\ UNCHANGED <<reviews, authUser, inflight, products, orders, nextOrderId, offers, nextOfferId, now>>
  ELSE /\ nextOfferId <= MaxOffers
       /\ offers' = [id \in DOMAIN offers \cup {nextOfferId} |->
                       IF id = nextOfferId
                         THEN [code       |-> data.code,
                               type       |-> data.type,
                               value      |-> data.value,
                               minAmount  |-> FieldOr(data, "minAmount", Null),
                               maxUses    |-> FieldOr(data, "maxUses", Null),
                               usedCount  |-> 0,
                               isActive   |-> FieldOr(data, "isActive", TRUE),
                               startsAt   |-> data.startsAt,
                               endsAt     |-> data.endsAt,
                               productIds |-> FieldOr(data, "productIds", {})]
                         ELSE offers[id]]
       /\ nextOfferId' = nextOfferId + 1
       /\ last' = Last("offerPost", "created", "none")
       /\ UNCHANGED <<reviews, authUser, inflight, products, orders, nextOrderId, now>>

\* data: updateData, with the product associations replaced when given
PatchedOffer(offer, data) ==
  [f \in DOMAIN offer |-> IF f \in DOMAIN data THEN data[f] ELSE offer[f]]

\* PUT /offers/{id}
OfferPut(id, data) ==
  IF ~SchemaAccepts(data)
    THEN /\ last' = Last("offerPut", "invalid", "none")
         /\ UNCHANGED <<reviews, authUser, inflight, products, orders, nextOrderId, offers, nextOfferId, now>>
  ELSE IF id \notin DOMAIN offers
    THEN /\ last' = Last("offerPut", "notFound", "none")
         /\ UNCHANGED <<reviews, authUser, inflight, products, orders, nextOrderId, offers, nextOfferId, now>>
  ELSE IF /\ "code" \in DOMAIN data
          /\ \E other \in DOMAIN offers \ {id} : offers[other].code = data.code
    THEN /\ last' = Last("offerPut", "duplicate", "none")
         /\ UNCHANGED <<reviews, authUser, inflight, products, orders, nextOrderId, offers, nextOfferId, now>>
  ELSE IF /\ ("startsAt" \in DOMAIN data \/ "endsAt" \in DOMAIN data)
          /\ FieldOr(data, "endsAt", offers[id].endsAt)
               <= FieldOr(data, "startsAt", offers[id].startsAt)
    THEN /\ last' = Last("offerPut", "badDates", "none")
         /\ UNCHANGED <<reviews, authUser, inflight, products, orders, nextOrderId, offers, nextOfferId, now>>
  ELSE /\ offers' = [offers EXCEPT ![id] = PatchedOffer(@, data)]
       /\ last' = Last("offerPut", "updated", "none")
       /\ UNCHANGED <<reviews, authUser, inflight, products, orders, nextOrderId, nextOfferId, now>>

\* The evaluator called on its own (it reads the store and writes nothing).
Evaluate(offerCode, cartTotal, productIds) ==
  /\ last' = [Last("evaluate", "returned", "none")
                EXCEPT !.code = offerCode, !.cartTotal = cartTotal,
                       !.calc = validateAndApplyOffer(offers, offerCode, cartTotal,
                                                      productIds, now)]
  /\ UNCHANGED <<reviews, authUser, inflight, products, orders, nextOrderId, offers, nextOfferId, now>>

\* ----------------------------------------------------------------- products
\* POST /admin/products/bulk, operations activate and deactivate
BulkSetActive(ids, flag) ==
  IF ~requireAdmin(authUser)
    THEN /\ last' = Last("bulk", IF requireAuth(authUser) THEN "forbidden"
                                                       ELSE "unauthenticated", "none")
         /\ UNCHANGED <<reviews, authUser, inflight, products, orders, nextOrderId, offers, nextOfferId, now>>
  ELSE /\ products' = [p \in DOMAIN products |->
                         IF p \in ids THEN [products[p] EXCEPT !.isActive = flag]
                                      ELSE products[p]]
       /\ last' = Last(IF flag THEN "bulkActivate" ELSE "bulkDeactivate", "done", "none")
       /\ UNCHANGED <<reviews, authUser, inflight, orders, nextOrderId, offers, nextOfferId, now>>

\* ---------------------------------------------------------------- inventory
Max(a, b) == IF a > b THEN a ELSE b

WithinFloor(prods) == \A p \in DOMAIN prods : prods[p].stock >= -MaxStock

\* switch (operation) of the inventory update
NewStock(stock, quantity, operation) ==
  CASE operation = "add"      -> stock + quantity
    [] operation = "subtract" -> Max(0, stock - quantity)
    [] operation = "set"      -> Max(0, quantity)

\* POST /admin/inventory; the body is read without a schema, and a quantity
\* of 0 counts as missing.
InventoryPost(productId, quantity, operation) ==
  IF ~requireAdmin(authUser)
    THEN /\ last' = Last("inventoryPost", IF requireAuth(authUser) THEN "forbidden"
                                                                ELSE "unauthenticated", "none")
         /\ UNCHANGED <<reviews, authUser, inflight, products, orders, nextOrderId, offers, nextOfferId, now>>
  ELSE IF quantity = 0
    THEN /\ last' = Last("inventoryPost", "invalid", "none")
         /\ UNCHANGED <<reviews, authUser, inflight, products, orders, nextOrderId, offers, nextOfferId, now>>
  ELSE IF operation \notin {"add", "subtract", "set"}
    THEN /\ last' = Last("inventoryPost", "badOperation", "none")
         /\ UNCHANGED <<reviews, authUser, inflight, products, orders, nextOrderId, offers, nextOfferId, now>>
  ELSE IF productId \notin DOMAIN products
    THEN /\ last' = Last("inventoryPost", "notFound", "none")
         /\ UNCHANGED <<reviews, authUser, inflight, products, orders, nextOrderId, offers, nextOfferId, now>>
  ELSE LET newStock == NewStock(products[productId].stock, quantity, operation)
           updated == [products EXCEPT ![productId].stock = newStock]
       IN /\ WithinCap(updated)
          /\ WithinFloor(updated)
          /\ products' = updated
          /\ last' = Last("inventoryPost", operation, "none")
          /\ UNCHANGED <<reviews, authUser, inflight, orders, nextOrderId, offers, nextOfferId, now>>

\* bulkOperationSchema / productUpdateSchema: stock is an integer >= 0
StockAccepted(data) == "stock" \in DOMAIN data => data.stock >= 0

\* POST /admin/products/bulk, operation updateStock
BulkUpdateStock(ids, data) ==
  IF ids = {} \/ ~StockAccepted(data)
    THEN /\ last' = Last("bulkUpdateStock", "invalid", "none")
         /\ UNCHANGED <<reviews, authUser, inflight, products, orders, nextOrderId, offers, nextOfferId, now>>
  ELSE IF ~requireAdmin(authUser)
    THEN /\ last' = Last("bulkUpdateStock", IF requireAuth(authUser) THEN "forbidden"
                                                                  ELSE "unauthenticated", "none")
         /\ UNCHANGED <<reviews, authUser, inflight, products, orders, nextOrderId, offers, nextOfferId, now>>
  ELSE IF "stock" \notin DOMAIN data
    THEN /\ last' = Last("bulkUpdateStock", "stockRequired", "none")
         /\ UNCHANGED <<reviews, authUser, inflight, products, orders, nextOrderId, offers, nextOfferId, now>>
  ELSE LET updated == [p \in DOMAIN products |->
                         IF p \in ids THEN [products[p] EXCEPT !.stock = data.stock]
                                      ELSE products[p]]
       IN /\ WithinCap(updated)
          /\ products' = updated
          /\ last' = Last("bulkUpdateStock", "done", "none")
          /\ UNCHANGED <<reviews, authUser, inflight, orders, nextOrderId, offers, nextOfferId, now>>

\* data: validatedData of the product update
PatchedProduct(product, data) ==
  [f \in DOMAIN product |-> IF f \in DOMAIN data THEN data[f] ELSE product[f]]

\* PUT /products/{id}
ProductPut(id, data) ==
  IF ~StockAccepted(data)
    THEN /\ last' = Last("productPut", "invalid", "none")
         /\ UNCHANGED <<reviews, authUser, inflight, products, orders, nextOrderId, offers, nextOfferId, now>>
  ELSE IF id \notin DOMAIN products
    THEN /\ last' = Last("productPut", "notFound", "none")
         /\ UNCHANGED <<reviews, authUser, inflight, products, orders, nextOrderId, offers, nextOfferId, now>>
  ELSE LET updated == [products EXCEPT ![id] = PatchedProduct(@, data)]
       IN /\ WithinCap(updated)
          /\ products' = updated
          /\ last' = Last("productPut", "updated", "none")
          /\ UNCHANGED <<reviews, authUser, inflight, orders, nextOrderId, offers, nextOfferId, now>>

\* ------------------------------------------------------------------ reviews
\* The bearer token of the following requests is that of user u, or unusable.
Authenticate(u) ==
  /\ authUser' = u
  /\ last' = Last("authenticate", "done", "none")
  /\ UNCHANGED <<reviews, inflight, products, orders, nextOrderId, offers, nextOfferId, now>>

\* reviews.reduce((sum, review) => sum + review.rating, 0)
RECURSIVE SumRatings(_)
SumRatings(revs) ==
  IF revs = {} THEN 0
  ELSE LET r == CHOOSE x \in revs : TRUE
       IN r.rating + SumRatings(revs \ {r})

\* [mutant] the reviews of every product are averaged
ActiveReviewsOf_AnyProduct(revs, productId) == {r \in revs : r.isActive}

\* db.review.findMany({ where: { productId, isActive: true } })
ActiveReviewsOf(revs, productId) ==
  {r \in revs : r.productId = productId /\ r.isActive}

updateProductRating(prods, revs, productId) ==
  LET found == ActiveReviewsOf(revs, productId)
      totalRating == SumRatings(found)
      averageRating == IF Cardinality(found) > 0
                         THEN Ratio(totalRating, Cardinality(found))
                         ELSE NoRating
  IN IF productId \in DOMAIN prods
       THEN [prods EXCEPT ![productId].rating = averageRating,
                          ![productId].reviewCount = Cardinality(found)]
       ELSE prods

\* [mutant] the two keys of the lookup are swapped
ExistingReview_SwappedKeys(revs, userId, productId) ==
  {r \in revs : r.userId = productId /\ r.productId = userId}

\* db.review.findUnique({ where: { userId_productId: { userId, productId } } })
ExistingReview(revs, userId, productId) ==
  {r \in revs : r.userId = userId /\ r.productId = productId}

\* db.review.create: the row is active unless told otherwise.
NewReview(userId, productId, rating) ==
  [userId |-> userId, productId |-> productId, rating |-> rating, isActive |-> TRUE]

\* POST /reviews
ReviewPost(productId, rating) ==
  IF rating < 1 \/ rating > 5
    THEN /\ last' = Last("reviewPost", "invalid", "none")
         /\ UNCHANGED <<reviews, authUser, inflight, products, orders, nextOrderId, offers, nextOfferId, now>>
  ELSE IF ~requireAuth(authUser)
    THEN /\ last' = Last("reviewPost", "unauthenticated", "none")
         /\ UNCHANGED <<reviews, authUser, inflight, products, orders, nextOrderId, offers, nextOfferId, now>>
  ELSE IF productId \notin DOMAIN products
    THEN /\ last' = Last("reviewPost", "notFound", "none")
         /\ UNCHANGED <<reviews, authUser, inflight, products, orders, nextOrderId, offers, nextOfferId, now>>
  ELSE IF ExistingReview(reviews, authUser, productId) # {}
    THEN /\ last' = Last("reviewPost", "duplicate", "none")
         /\ UNCHANGED <<reviews, authUser, inflight, products, orders, nextOrderId, offers, nextOfferId, now>>
  ELSE LET created == reviews \cup {NewReview(authUser, productId, rating)}
       IN /\ reviews' = created
          /\ products' = updateProductRating(products, created, productId)
          /\ last' = Last("reviewPost", "created", "none")
          /\ UNCHANGED <<authUser, inflight, orders, nextOrderId, offers, nextOfferId, now>>

\* --------------------------------------------------------- product deletion
\* [mutant] only the items of orders that are not cancelled count
HasOrderItems_LiveOrdersOnly(ords, p) ==
  \E id \in DOMAIN ords :
     /\ ords[id].status # "CANCELLED"
     /\ \E i \in DOMAIN ords[id].items : ords[id].items[i].productId = p

\* orderItems: { some: {} } / existingProduct.orderItems.length > 0
HasOrderItems(ords, p) ==
  \E id \in DOMAIN ords :
     \E i \in DOMAIN ords[id].items : ords[id].items[i].productId = p

\* db.product.delete / deleteMany
WithoutProducts(prods, ids) == [p \in DOMAIN prods \ ids |-> prods[p]]

\* DELETE /products/{id}
ProductDelete(id) ==
  IF id \notin DOMAIN products
    THEN /\ last' = Last("productDelete", "notFound", "none")
         /\ UNCHANGED <<reviews, authUser, inflight, products, orders, nextOrderId, offers, nextOfferId, now>>
  ELSE IF HasOrderItems(orders, id)
    THEN /\ products' = [products EXCEPT ![id].isActive = FALSE]
         /\ last' = Last("productDelete", "deactivated", "none")
         /\ UNCHANGED <<reviews, authUser, inflight, orders, nextOrderId, offers, nextOfferId, now>>
  ELSE /\ products' = WithoutProducts(products, {id})
       /\ last' = Last("productDelete", "deleted", "none")
       /\ UNCHANGED <<reviews, authUser, inflight, orders, nextOrderId, offers, nextOfferId, now>>

\* POST /admin/products/bulk, operation delete
BulkDelete(ids) ==
  IF ids = {}
    THEN /\ last' = Last("bulkDelete", "invalid", "none")
         /\ UNCHANGED <<reviews, authUser, inflight, products, orders, nextOrderId, offers, nextOfferId, now>>
  ELSE IF ~requireAdmin(authUser)
    THEN /\ last' = Last("bulkDelete", IF requireAuth(authUser) THEN "forbidden"
                                                             ELSE "unauthenticated", "none")
         /\ UNCHANGED <<reviews, authUser, inflight, products, orders, nextOrderId, offers, nextOfferId, now>>
  ELSE IF \E p \in ids \cap DOMAIN products : HasOrderItems(orders, p)
    THEN /\ last' = Last("bulkDelete", "inOrders", "none")
         /\ UNCHANGED <<reviews, authUser, inflight, products, orders, nextOrderId, offers, nextOfferId, now>>
  ELSE /\ products' = WithoutProducts(products,
                                      {p \in ids : ~HasOrderItems(orders, p)})
       /\ last' = Last("bulkDelete", "done", "none")
       /\ UNCHANGED <<reviews, authUser, inflight, orders, nextOrderId, offers, nextOfferId, now>>

\* ------------------------------------------- order creation, step by step
\* [mutant] the decrement stops at 0
DecrementStock_Clamped(prods, items) ==
  [p \in DOMAIN prods |->
     [prods[p] EXCEPT !.stock = Max(0, @ - QtyOf(items, p))]]

\* for (const item of items) db.product.update({ stock: { decrement } })
DecrementStock(prods, items) == AdjustStock(prods, items, -1)

\* A request r enters the requests in flight with what it has read, and
\* leaves them with its last write.
Enter(r, request) ==
  [x \in DOMAIN inflight \cup {r} |-> IF x = r THEN request ELSE inflight[x]]

Leave(r) == [x \in DOMAIN inflight \ {r} |-> inflight[x]]

\* [mutant] the offer is evaluated again at the time of the writes
OfferRead_Fresh(request, offs, t) ==
  OfferResult(offs, request.code, Subtotal(request.items), request.items, t)

\* discount and offerId: what the evaluation before db.order.create returned
OfferRead(request, offs, t) == request.offerResult

\* POST /orders up to its last read: authentication, lookup of the products,
\* stock check and evaluation of the offer code.  A request that passes is
\* in flight with its items and the evaluator's result.
OrderPostRead(r, items, offerCode) ==
  /\ r \notin DOMAIN inflight
  /\ IF ~requireAuth(authUser)
       THEN /\ last' = Last("orderPostRead", "unauthenticated", "none")
            /\ UNCHANGED <<reviews, authUser, inflight, products, orders, nextOrderId, offers, nextOfferId, now>>
     ELSE IF SomeUnavailable(products, items)
       THEN /\ last' = Last("orderPostRead", "unavailable", "none")
            /\ UNCHANGED <<reviews, authUser, inflight, products, orders, nextOrderId, offers, nextOfferId, now>>
     ELSE IF InsufficientStock(products, items)
       THEN /\ last' = Last("orderPostRead", "insufficient", "none")
            /\ UNCHANGED <<reviews, authUser, inflight, products, orders, nextOrderId, offers, nextOfferId, now>>
     ELSE /\ inflight' = Enter(r, [op |-> "create", items |-> items, code |-> offerCode,
                                   offerResult |-> OfferResult(offers, offerCode,
                                                               Subtotal(items), items, now)])
          /\ last' = Last("orderPostRead", "passed", "none")
          /\ UNCHANGED <<reviews, authUser, products, orders, nextOrderId, offers, nextOfferId, now>>

\* POST /orders from db.order.create on: the order is stored, the stock of
\* every item decremented and the usage of the matched offer incremented,
\* without another look at the stock or at the offer.
OrderPostWrite(r) ==
  /\ r \in DOMAIN inflight
  /\ inflight[r].op = "create"
  /\ nextOrderId <= MaxOrders
  /\ WithinFloor(DecrementStock(products, inflight[r].items))
  /\ orders' = [id \in DOMAIN orders \cup {nextOrderId} |->
                  IF id = nextOrderId
                    THEN NewOrder(inflight[r].items, OfferRead(inflight[r], offers, now))
                    ELSE orders[id]]
  /\ nextOrderId' = nextOrderId + 1
  /\ products' = DecrementStock(products, inflight[r].items)
  /\ offers' = IF OfferRead(inflight[r], offers, now).offer # NoOffer
                 THEN incrementOfferUsage(offers, OfferRead(inflight[r], offers, now).offer)
                 ELSE offers
  /\ inflight' = Leave(r)
  /\ last' = Last("orderPostWrite", "created", "none")
  /\ UNCHANGED <<reviews, authUser, nextOfferId, now>>

\* ----------------------------------------------- order update, step by step
\* [mutant] the status is read again at the time of the writes
StatusRead_Fresh(request, ords) ==
  IF request.id \in DOMAIN ords THEN ords[request.id].status
                                ELSE request.existingOrder.status

\* existingOrder.status: the status as db.order.findUnique returned it
StatusRead(request, ords) == request.existingOrder.status

\* PUT /admin/orders/{id} up to db.order.findUnique: the request is in flight
\* with the order as it read it.
AdminOrderPutRead(r, id, req) ==
  /\ r \notin DOMAIN inflight
  /\ IF ~StatusAccepted(req)
       THEN /\ last' = Last("adminOrderPutRead", "invalid", "none")
            /\ UNCHANGED <<reviews, authUser, inflight, products, orders, nextOrderId, offers, nextOfferId, now>>
     ELSE IF ~requireAdmin(authUser)
       THEN /\ last' = Last("adminOrderPutRead", IF requireAuth(authUser) THEN "forbidden"
                                                 ELSE "unauthenticated", "none")
            /\ UNCHANGED <<reviews, authUser, inflight, products, orders, nextOrderId, offers, nextOfferId, now>>
     ELSE IF id \notin DOMAIN orders
       THEN /\ last' = Last("adminOrderPutRead", "notFound", "none")
            /\ UNCHANGED <<reviews, authUser, inflight, products, orders, nextOrderId, offers, nextOfferId, now>>
     ELSE /\ inflight' = Enter(r, [op |-> "update", id |-> id, req |-> req,
                                   existingOrder |-> orders[id]])
          /\ last' = Last("adminOrderPutRead", "found", Edge(req, orders[id].status))
          /\ UNCHANGED <<reviews, authUser, products, orders, nextOrderId, offers, nextOfferId, now>>

\* PUT /admin/orders/{id} from the status guards on: the stock is restored or
\* deducted as the status read earlier tells, then the order is updated.
AdminOrderPutWrite(r) ==
  /\ r \in DOMAIN inflight
  /\ inflight[r].op = "update"
  /\ LET request == inflight[r]
         existingOrder == request.existingOrder
         prev == StatusRead(request, orders)
         restored == IF IsCancellation(request.req, prev)
                       THEN AdjustStock(products, existingOrder.items, 1)
                       ELSE products
     IN IF /\ IsReinstatement(request.req, prev)
           /\ ReinstateCheckFails(restored, existingOrder.items)
          THEN /\ inflight' = Leave(r)
               /\ last' = Last("adminOrderPutWrite", "insufficient", Edge(request.req, prev))
               /\ UNCHANGED <<reviews, authUser, products, orders, nextOrderId, offers, nextOfferId, now>>
        ELSE LET deducted == IF IsReinstatement(request.req, prev)
                               THEN AdjustStock(restored, existingOrder.items, -1)
                               ELSE restored
             IN /\ WithinCap(deducted)
                /\ products' = deducted
                /\ orders' = IF request.id \in DOMAIN orders
                               THEN [orders EXCEPT ![request.id].status =
                                                      UpdatedStatus(request.req, @)]
                               ELSE orders
                /\ inflight' = Leave(r)
                /\ last' = Last("adminOrderPutWrite",
                                IF request.id \in DOMAIN orders THEN "updated" ELSE "failed",
                                Edge(request.req, prev))
                /\ UNCHANGED <<reviews, authUser, nextOrderId, offers, nextOfferId, now>>

\* ------------------------------------------ order creation, write by write
\* One turn of the loop over the items: db.product.update with
\* stock: { decrement: item.quantity }.
DecrementItem(prods, item) ==
  [prods EXCEPT ![item.productId].stock = @ - item.quantity]

\* [mutant] the catch block deletes the order the request had created
OrderAfterError_RolledBack(ords, id) == [x \in DOMAIN ords \ {id} |-> ords[x]]

\* catch (error): the error is logged and answered with 500; the order that
\* db.order.create stored is left as it is.
OrderAfterError(ords, id) == ords

\* POST /orders, db.order.create: the order and its items are stored; the
\* loop over the items has not started.
OrderPostCreate(r) ==
  /\ r \in DOMAIN inflight
  /\ inflight[r].op = "create"
  /\ nextOrderId <= MaxOrders
  /\ orders' = [id \in DOMAIN orders \cup {nextOrderId} |->
                  IF id = nextOrderId
                    THEN NewOrder(inflight[r].items, inflight[r].offerResult)
                    ELSE orders[id]]
  /\ nextOrderId' = nextOrderId + 1
  /\ inflight' = [inflight EXCEPT ![r] =
                    [op |-> "decrement", id |-> nextOrderId,
                     rest |-> inflight[r].items,
                     offerResult |-> inflight[r].offerResult]]
  /\ last' = Last("orderPostCreate", "stored", "none")
  /\ UNCHANGED <<reviews, authUser, products, offers, nextOfferId, now>>

\* POST /orders, one turn of the loop: the next item's stock is decremented.
OrderPostDecrement(r) ==
  /\ r \in DOMAIN inflight
  /\ inflight[r].op = "decrement"
  /\ inflight[r].rest # <<>>
  /\ WithinFloor(DecrementItem(products, Head(inflight[r].rest)))
  /\ products' = DecrementItem(products, Head(inflight[r].rest))
  /\ inflight' = [inflight EXCEPT ![r].rest = Tail(@)]
  /\ last' = Last("orderPostDecrement", "decremented", "none")
  /\ UNCHANGED <<reviews, authUser, orders, nextOrderId, offers, nextOfferId, now>>

\* POST /orders, a turn of the loop whose db.product.update rejects: control
\* passes to the catch block, the remaining turns and incrementOfferUsage
\* are skipped, the response is 500.
OrderPostThrow(r) ==
  /\ r \in DOMAIN inflight
  /\ inflight[r].op = "decrement"
  /\ inflight[r].rest # <<>>
  /\ orders' = OrderAfterError(orders, inflight[r].id)
  /\ inflight' = Leave(r)
  /\ last' = Last("orderPostThrow", "failed", "none")
  /\ UNCHANGED <<reviews, authUser, products, nextOrderId, offers, nextOfferId, now>>

\* POST /orders after the loop: the usage of the matched offer is
\* incremented and the order answered with 201.
OrderPostRespond(r) ==
  /\ r \in DOMAIN inflight
  /\ inflight[r].op = "decrement"
  /\ inflight[r].rest = <<>>
  /\ offers' = IF inflight[r].offerResult.offer # NoOffer
                 THEN incrementOfferUsage(offers, inflight[r].offerResult.offer)
                 ELSE offers
  /\ inflight' = Leave(r)
  /\ last' = Last("orderPostRespond", "created", "none")
  /\ UNCHANGED <<reviews, authUser, products, orders, nextOrderId, nextOfferId, now>>

\* ------------------------------------------- inventory update, step by step
\* [mutant] the new stock is computed from the stock at the time of the write
WrittenStock_Fresh(request, prods) ==
  NewStock(prods[request.productId].stock, request.quantity, request.operation)

\* newStock: computed from product.stock as db.product.findUnique returned it
WrittenStock(request, prods) ==
  NewStock(request.product.stock, request.quantity, request.operation)

\* POST /admin/inventory up to db.product.findUnique: the request is in
\* flight with the product as it read it.
InventoryPostRead(r, productId, quantity, operation) ==
  /\ r \notin DOMAIN inflight
  /\ IF ~requireAdmin(authUser)
       THEN /\ last' = Last("inventoryPostRead", IF requireAuth(authUser) THEN "forbidden"
                                                 ELSE "unauthenticated", "none")
            /\ UNCHANGED <<reviews, authUser, inflight, products, orders, nextOrderId, offers, nextOfferId, now>>
     ELSE IF quantity = 0
       THEN /\ last' = Last("inventoryPostRead", "invalid", "none")
            /\ UNCHANGED <<reviews, authUser, inflight, products, orders, nextOrderId, offers, nextOfferId, now>>
     ELSE IF operation \notin {"add", "subtract", "set"}
       THEN /\ last' = Last("inventoryPostRead", "badOperation", "none")
            /\ UNCHANGED <<reviews, authUser, inflight, products, orders, nextOrderId, offers, nextOfferId, now>>
     ELSE IF productId \notin DOMAIN products
       THEN /\ last' = Last("inventoryPostRead", "notFound", "none")
            /\ UNCHANGED <<reviews, authUser, inflight, products, orders, nextOrderId, offers, nextOfferId, now>>
     ELSE /\ inflight' = Enter(r, [op |-> "inventory", productId |-> productId,
                                   quantity |-> quantity, operation |-> operation,
                                   product |-> products[productId]])
          /\ last' = Last("inventoryPostRead", "found", "none")
          /\ UNCHANGED <<reviews, authUser, products, orders, nextOrderId, offers, nextOfferId, now>>

\* POST /admin/inventory from the switch on: db.product.update stores
\* newStock as the product's stock. The edge observed is "overwrite" when the
\* stock had changed since the request read it.
InventoryPostWrite(r) ==
  /\ r \in DOMAIN inflight
  /\ inflight[r].op = "inventory"
  /\ LET request == inflight[r]
         updated == [products EXCEPT
                       ![request.productId].stock = WrittenStock(request, products)]
     IN /\ WithinCap(updated)
        /\ WithinFloor(updated)
        /\ products' = updated
        /\ last' = Last("inventoryPostWrite", request.operation,
                        IF products[request.productId].stock = request.product.stock
                          THEN "none" ELSE "overwrite")
  /\ inflight' = Leave(r)
  /\ UNCHANGED <<reviews, authUser, orders, nextOrderId, offers, nextOfferId, now>>

\* -------------------------------------------------------------------- clock
\* new Date() grows between requests.
Tick ==
  /\ now < MaxTime
  /\ now' = now + 1
  /\ last' = Last("tick", "done", "none")
  /\ UNCHANGED <<reviews, authUser, inflight, products, orders, nextOrderId, offers, nextOfferId>>

\* ------------------------------------------------------------ request inputs
Item(p, q, price) == [productId |-> p, quantity |-> q, price |-> price]

Codes == {<<"A">>, <<"a">>}

EmptyFunction == [x \in {} |-> 0]

Init ==
  /\ products = [p \in ProductIds |->
                   [stock |-> InitStock, isActive |-> TRUE, price |-> Num(30),
                    rating |-> NoRating, reviewCount |-> 0]]
  /\ orders = EmptyFunction
  /\ nextOrderId = 1
  /\ offers = EmptyFunction
  /\ nextOfferId = 1
  /\ now = 0
  /\ last = Last("init", "done", "none")
  /\ reviews = {}
  /\ authUser = "admin"
  /\ inflight = EmptyFunction

\* ------------------------------------------------------- stock specification
\* Order creation, both order-update endpoints and order deletion.
\* The carts: one line, two lines on two products (2 of p1 and 1 of p2), the
\* same product on two lines, and a product the catalogue does not hold.
StockCarts ==
  {<<Item("p1", 1, Num(30))>>,
   <<Item("p2", 2, Num(30))>>,
   <<Item("p1", 2, Num(30)), Item("p2", 1, Num(30))>>,
   <<Item("p1", 1, Num(30)), Item("p1", 1, Num(30))>>,
   <<Item("p2", 1, Num(30)), Item(MissingProduct, 1, Num(30))>>}

StockStatuses == {"PENDING", "SHIPPED", "CANCELLED", NoStatus}

Next ==
  \/ \E items \in StockCarts : OrderPost(items, NoCode)
  \/ \E id \in 1..MaxOrders, req \in StockStatuses : OrderPut(id, req)
  \/ \E id \in 1..MaxOrders, req \in StockStatuses : AdminOrderPut(id, req)
  \/ \E id \in 1..MaxOrders : OrderDelete(id)

Spec == Init /\ [][Next]_vars

\* ------------------------------------------------------- usage specification
\* Order creation with offer codes, offer creation and update, cancellation,
\* reinstatement and deletion of orders, the clock.
\* The carts: a subtotal of 100 and one of 40, below the offer's minAmount.
UsageCarts ==
  {<<Item("p1", 1, Num(100))>>,
   <<Item("p2", 2, Num(20))>>}

SummerOffer ==
  [code |-> <<"A">>, type |-> "PERCENTAGE", value |-> Num(20), minAmount |-> Num(50),
   maxUses |-> 1, startsAt |-> 0, endsAt |-> 1]

UsagePatches == {[isActive |-> FALSE], [isActive |-> TRUE], [maxUses |-> 2]}

NextUsage ==
  \/ \E items \in UsageCarts, code \in Codes \cup {NoCode} : OrderPost(items, code)
  \/ \E id \in 1..MaxOrders, req \in {"CANCELLED", "PENDING"} : AdminOrderPut(id, req)
  \/ \E id \in 1..MaxOrders : OrderDelete(id)
  \/ OfferPost(SummerOffer)
  \/ \E id \in 1..MaxOffers, data \in UsagePatches : OfferPut(id, data)
  \/ Tick

SpecUsage == Init /\ [][NextUsage]_vars

\* ----------------------------------------------------- pricing specification
\* Order creation over carts with subtotals of 100, 40 and 50, the empty cart
\* and a product the catalogue does not hold; offers of two types under one
\* code; product (de)activation; the clock.
PricingCarts ==
  {<<Item("p1", 1, Num(100))>>,
   <<Item("p2", 2, Num(20))>>,
   <<Item("p1", 1, Num(50))>>,
   <<>>,
   <<Item("p2", 1, Num(20)), Item(MissingProduct, 1, Num(20))>>}

FreeShippingOffer ==
  [code |-> <<"A">>, type |-> "FREE_SHIPPING", value |-> Num(1), startsAt |-> 0,
   endsAt |-> 2]

NextPricing ==
  \/ \E items \in PricingCarts, code \in {<<"A">>, NoCode} : OrderPost(items, code)
  \/ \E data \in {SummerOffer, FreeShippingOffer} : OfferPost(data)
  \/ \E flag \in BOOLEAN : BulkSetActive({"p2"}, flag)
  \/ Tick

SpecPricing == Init /\ [][NextPricing]_vars

\* --------------------------------------------------- evaluator specification
\* Offers of every type, with a value of 20 or of 150, in the window [0, 1] or
\* [1, 2], created and updated through the offer endpoints, and the evaluator
\* applied to carts of 0, 40 and 100.
EvalOffers ==
  {[code |-> <<"A">>, type |-> ty, value |-> Num(v), startsAt |-> st, endsAt |-> st + 1] :
     ty \in OfferTypes, v \in {20, 150}, st \in {0, 1}}

EvalPatches ==
  {[isActive |-> FALSE], [isActive |-> TRUE], [minAmount |-> Num(50)],
   [productIds |-> {"p2"}], [endsAt |-> 0]}

NextEval ==
  \/ \E data \in EvalOffers : OfferPost(data)
  \/ \E id \in 1..MaxOffers, data \in EvalPatches : OfferPut(id, data)
  \/ \E code \in Codes, cartTotal \in {Num(0), Num(40), Num(100)},
        productIds \in {<<>>, <<"p1">>} : Evaluate(code, cartTotal, productIds)
  \/ Tick

SpecEval == Init /\ [][NextEval]_vars

\* --------------------------------------------------- inventory specification
\* Manual stock edits (inventory add, subtract and set with negative, zero and
\* positive quantities, bulk updateStock, product update) next to order
\* creation, cancellation and reinstatement.
InventoryCarts == {<<Item("p1", 2, Num(30))>>}

Quantities == {-2, 0, 1}

StockPatches == {[stock |-> -1], [stock |-> 0], [stock |-> 1], [isActive |-> FALSE]}

NextInventory ==
  \/ \E items \in InventoryCarts : OrderPost(items, NoCode)
  \/ \E id \in 1..MaxOrders, req \in {"CANCELLED", "PENDING"} : AdminOrderPut(id, req)
  \/ \E productId \in ProductIds \cup {MissingProduct}, quantity \in Quantities,
        operation \in {"add", "subtract", "set", "multiply"} :
          InventoryPost(productId, quantity, operation)
  \/ \E ids \in {{"p1"}, {"p1", "p2"}}, data \in StockPatches : BulkUpdateStock(ids, data)
  \/ \E id \in ProductIds \cup {MissingProduct}, data \in StockPatches : ProductPut(id, data)

SpecInventory == Init /\ [][NextInventory]_vars

\* ------------------------------------------------------- code specification
\* Offers stored under codes in either letter case, as the offer endpoints
\* keep them, renamed through the update endpoint, and evaluated with request
\* codes in either case on carts of 40 and 100.
StoredCodes == {<<"A">>, <<"a">>, <<"a", "B">>}

CodedOffers ==
  {[code |-> c, type |-> "PERCENTAGE", value |-> Num(20), startsAt |-> 0, endsAt |-> 1] :
     c \in StoredCodes}

CodePatches == {[code |-> c] : c \in StoredCodes} \cup {[isActive |-> FALSE]}

RequestCodes == Codes \cup {<<"A", "B">>, <<"a", "b">>}

NextCodes ==
  \/ \E data \in CodedOffers : OfferPost(data)
  \/ \E id \in 1..MaxOffers, data \in CodePatches : OfferPut(id, data)
  \/ \E code \in RequestCodes, cartTotal \in {Num(40), Num(100)} :
        Evaluate(code, cartTotal, <<"p1">>)
  \/ Tick

SpecCodes == Init /\ [][NextCodes]_vars

\* ----------------------------------------------------- review specification
\* Reviews by every user and by a request without a token, on both products
\* and on a product the catalogue does not hold, with ratings 2 and 5 and the
\* ratings 0 and 6 the schema refuses.
Ratings == {0, 2, 5, 6}

NextReviews ==
  \/ \E u \in Users \cup {Anonymous} : Authenticate(u)
  \/ \E productId \in ProductIds \cup {MissingProduct}, rating \in Ratings :
        ReviewPost(productId, rating)

SpecReviews == Init /\ [][NextReviews]_vars

\* -------------------------------------------------- catalogue specification
\* Product deletion, one product at a time and in bulk, next to order
\* creation, cancellation and deletion.
CatalogueCarts ==
  {<<Item("p1", 1, Num(30))>>,
   <<Item("p2", 1, Num(30))>>,
   <<Item("p1", 1, Num(30)), Item("p2", 1, Num(30))>>}

NextCatalogue ==
  \/ \E items \in CatalogueCarts : OrderPost(items, NoCode)
  \/ \E id \in 1..MaxOrders : AdminOrderPut(id, "CANCELLED")
  \/ \E id \in 1..MaxOrders : OrderDelete(id)
  \/ \E id \in ProductIds \cup {MissingProduct} : ProductDelete(id)
  \/ \E ids \in {{}, {"p1"}, {"p1", "p2"}, {"p2", MissingProduct}} : BulkDelete(ids)

SpecCatalogue == Init /\ [][NextCatalogue]_vars

\* -------------------------------------------------- lifecycle specification
\* Both update endpoints with every status of the enum, a payload without
\* status and a status the enum does not hold, on orders of one product.
LifecycleCarts == {<<Item("p1", 1, Num(30))>>}

RequestedStatuses == Statuses \cup {NoStatus, "REFUNDED"}

NextLifecycle ==
  \/ \E items \in LifecycleCarts : OrderPost(items, NoCode)
  \/ \E id \in 1..MaxOrders, req \in RequestedStatuses : OrderPut(id, req)
  \/ \E id \in 1..MaxOrders, req \in RequestedStatuses : AdminOrderPut(id, req)

SpecLifecycle == Init /\ [][NextLifecycle]_vars

\* ------------------------------------------- authorisation specification
\* The endpoints the API documentation marks (Admin), and order creation,
\* called with the token of an admin, of a plain user and without a token.
NextAuth ==
  \/ \E u \in {"admin", "u1", Anonymous} : Authenticate(u)
  \/ \E items \in LifecycleCarts : OrderPost(items, NoCode)
  \/ \E id \in 1..MaxOrders, req \in {"CANCELLED", "SHIPPED"} : OrderPut(id, req)
  \/ \E id \in 1..MaxOrders, req \in {"CANCELLED", "SHIPPED"} : AdminOrderPut(id, req)
  \/ \E id \in 1..MaxOrders : OrderDelete(id)
  \/ OfferPost(SummerOffer)
  \/ \E id \in 1..MaxOffers : OfferPut(id, [isActive |-> FALSE])
  \/ ProductPut("p2", [stock |-> 1])
  \/ ProductDelete("p2")

SpecAuth == Init /\ [][NextAuth]_vars

\* ------------------------------------------------------- race specification
\* Order creations that interleave between the stock check and the writes:
\* two requests in flight at a time, for 1 or 2 of p1 or for 2 of p2.
Requests == {"r1", "r2"}

RaceCarts ==
  {<<Item("p1", 1, Num(30))>>,
   <<Item("p1", 2, Num(30))>>,
   <<Item("p2", 2, Num(30))>>}

NextRace ==
  \/ \E r \in Requests, items \in RaceCarts : OrderPostRead(r, items, NoCode)
  \/ \E r \in Requests : OrderPostWrite(r)

SpecRace == Init /\ [][NextRace]_vars

\* ---------------------------------------------- cancel race specification
\* Admin updates to CANCELLED or PENDING that interleave between the read of
\* the order and the writes, on orders for 1 of p1.
NextCancelRace ==
  \/ \E items \in LifecycleCarts : OrderPost(items, NoCode)
  \/ \E r \in Requests, id \in 1..MaxOrders, req \in {"CANCELLED", "PENDING"} :
        AdminOrderPutRead(r, id, req)
  \/ \E r \in Requests : AdminOrderPutWrite(r)

SpecCancelRace == Init /\ [][NextCancelRace]_vars

\* ------------------------------------------- partial failure specification
\* Order creations taken write by write, any decrement of which can fail,
\* over carts of one and of two lines, with and without the code of an offer.
PartialCarts ==
  {<<Item("p1", 1, Num(100))>>,
   <<Item("p1", 1, Num(100)), Item("p2", 1, Num(30))>>}

NextPartial ==
  \/ OfferPost(SummerOffer)
  \/ \E r \in Requests, items \in PartialCarts, code \in {NoCode, <<"A">>} :
        OrderPostRead(r, items, code)
  \/ \E r \in Requests : OrderPostCreate(r)
  \/ \E r \in Requests : OrderPostDecrement(r)
  \/ \E r \in Requests : OrderPostThrow(r)
  \/ \E r \in Requests : OrderPostRespond(r)

SpecPartial == Init /\ [][NextPartial]_vars

\* ------------------------------------------------- fallback specification
\* Order creation under a known and an unknown code, with an offer that is
\* open to every product or scoped to p2, can be deactivated, is capped at
\* one use and ends at time 1; carts of 100 and of 40, below its minAmount;
\* the evaluator on its own; the clock.
FallbackCarts ==
  {<<Item("p1", 1, Num(100))>>,
   <<Item("p2", 1, Num(40))>>}

FallbackOffers ==
  {SummerOffer,
   [code |-> <<"A">>, type |-> "PERCENTAGE", value |-> Num(20), minAmount |-> Num(50),
    maxUses |-> 1, startsAt |-> 0, endsAt |-> 1, productIds |-> {"p2"}]}

FallbackCodes == {<<"A">>, <<"B">>}

NextFallback ==
  \/ \E data \in FallbackOffers : OfferPost(data)
  \/ \E id \in 1..MaxOffers : OfferPut(id, [isActive |-> FALSE])
  \/ \E items \in FallbackCarts, code \in FallbackCodes : OrderPost(items, code)
  \/ \E code \in FallbackCodes, cartTotal \in {Num(100), Num(40)},
        productIds \in {<<"p1">>, <<"p2">>} : Evaluate(code, cartTotal, productIds)
  \/ Tick

SpecFallback == Init /\ [][NextFallback]_vars

\* ------------------------------------------------------ cap specification
\* Offer creation with a cap of two uses, offer updates that set the cap to
\* one or to two, order creation with and without the offer's code, the
\* clock.
CapOffer == [SummerOffer EXCEPT !.maxUses = 2]

CapPatches == {[maxUses |-> 1], [maxUses |-> 2]}

NextCap ==
  \/ OfferPost(CapOffer)
  \/ \E id \in 1..MaxOffers, data \in CapPatches : OfferPut(id, data)
  \/ \E items \in UsageCarts, code \in {NoCode, <<"A">>} : OrderPost(items, code)
  \/ Tick

SpecCap == Init /\ [][NextCap]_vars

\* ------------------------------------------------ duplicates specification
\* Order creation over carts that name a product once or twice, among
\* products that are all active; cancellation and reinstatement by the admin
\* endpoint.
DuplicateCarts ==
  {<<Item("p1", 1, Num(30))>>,
   <<Item("p1", 2, Num(30))>>,
   <<Item("p1", 1, Num(30)), Item("p2", 1, Num(30))>>,
   <<Item("p1", 1, Num(30)), Item("p1", 1, Num(30))>>,
   <<Item("p2", 1, Num(30)), Item("p1", 1, Num(30)), Item("p2", 1, Num(30))>>}

NextDuplicates ==
  \/ \E items \in DuplicateCarts : OrderPost(items, NoCode)
  \/ \E id \in 1..MaxOrders, req \in {"CANCELLED", "PENDING"} : AdminOrderPut(id, req)

SpecDuplicates == Init /\ [][NextDuplicates]_vars

\* ------------------------------------------------ offer race specification
\* Order creations that interleave between the evaluation of the offer and
\* the writes, with and without the code of an offer capped at one use.
NextOfferRace ==
  \/ OfferPost(SummerOffer)
  \/ \E r \in Requests, items \in UsageCarts, code \in {NoCode, <<"A">>} :
        OrderPostRead(r, items, code)
  \/ \E r \in Requests : OrderPostWrite(r)

SpecOfferRace == Init /\ [][NextOfferRace]_vars

\* -------------------------------------------- inventory race specification
\* Inventory updates of p1 by 1 that interleave, between the read of the
\* product and the write, with order creations for 1 of p1 and with
\* cancellations and reinstatements by the admin endpoint.
NextInventoryRace ==
  \/ \E items \in LifecycleCarts : OrderPost(items, NoCode)
  \/ \E id \in 1..MaxOrders, req \in {"CANCELLED", "PENDING"} : AdminOrderPut(id, req)
  \/ \E r \in Requests, productId \in {"p1", MissingProduct}, quantity \in {0, 1},
        operation \in {"add", "subtract", "set"} :
          InventoryPostRead(r, productId, quantity, operation)
  \/ \E r \in Requests : InventoryPostWrite(r)

SpecInventoryRace == Init /\ [][NextInventoryRace]_vars

\* ------------------------------------------------------------------ claims
ProductsOf(items) == {items[i].productId : i \in DOMAIN items}

\* C1: the stock of every product is non-negative in every state reached by
\* order creations, cancellations and reinstatements served one at a time,
\* whichever of the two update endpoints serves an update.
C1_StockNonNegative == \A p \in DOMAIN products : products[p].stock >= 0

\* A reinstatement has been accepted and left some product sold out.
C1_Witness ==
  /\ last.edge = "reinstate"
  /\ last.res = "updated"
  /\ \E p \in DOMAIN products : products[p].stock = 0

\* C2: the stock of every product is the initial stock minus the quantities
\* of that product on the existing orders that are not cancelled.
C2_StockMatchesReservations ==
  \A p \in DOMAIN products :
     products[p].stock =
       InitStock - SumSeq([id \in 1..MaxOrders |->
                             IF id \in DOMAIN orders /\ orders[id].status # "CANCELLED"
                               THEN QtyOf(orders[id].items, p)
                               ELSE 0])

\* C3: an update with status CANCELLED on an order that is already
\* CANCELLED leaves the stock of every product as it was, on both endpoints.
C3_RecancelKeepsStock ==
  [][last'.edge = "recancel" /\ last'.res = "updated" => products' = products]_vars

\* An order has been cancelled a second time, after stock was taken again.
C3_Witness ==
  /\ last.edge = "recancel"
  /\ last.op = "adminOrderPut"
  /\ \E id \in DOMAIN orders :
        orders[id].status = "CANCELLED" /\ Len(orders[id].items) = 2

\* C9: cancelling a non-cancelled order adds each item's quantity to the
\* stock of that item's product, leaves the other products' stock alone and
\* stores the status CANCELLED.
C9_CancelRestoresStock ==
  [][last'.edge = "cancel" /\ last'.res = "updated" =>
       \E id \in DOMAIN orders :
          /\ orders[id].status # "CANCELLED"
          /\ orders' = [orders EXCEPT ![id].status = "CANCELLED"]
          /\ \A i \in DOMAIN orders[id].items :
                products'[orders[id].items[i].productId].stock =
                  products[orders[id].items[i].productId].stock
                    + orders[id].items[i].quantity
          /\ \A p \in DOMAIN products \ ProductsOf(orders[id].items) :
                products'[p] = products[p]]_vars

\* The order of 2 of p1 and 1 of p2 has just been cancelled.
C9_Witness ==
  /\ last.edge = "cancel"
  /\ \E id \in DOMAIN orders :
        orders[id].status = "CANCELLED" /\ Len(orders[id].items) = 2

NewOrderIds == DOMAIN orders' \ DOMAIN orders

\* C4: an order is created only when every product on it exists, is active
\* and has stock >= the line's quantity; a request rejected for an
\* unavailable product or for insufficient stock changes no order, no stock
\* and no offer.
C4_CreateAllOrNothing ==
  [][/\ last'.op = "orderPost" /\ last'.res = "created" =>
          /\ Cardinality(NewOrderIds) = 1
          /\ \A id \in NewOrderIds : \A i \in DOMAIN orders'[id].items :
               LET item == orders'[id].items[i]
               IN /\ item.productId \in DOMAIN products
                  /\ products[item.productId].isActive
                  /\ products[item.productId].stock >= item.quantity
     /\ last'.op = "orderPost" /\ last'.res \in {"unavailable", "insufficient"} =>
          /\ orders' = orders
          /\ products' = products
          /\ offers' = offers]_vars

\* With p1 sold out by earlier orders and an offer in use, a further order
\* has been rejected for insufficient stock.
C4_Witness ==
  /\ last.op = "orderPost"
  /\ last.res = "insufficient"
  /\ products["p1"].stock = 0
  /\ \E o \in DOMAIN offers : offers[o].usedCount > 0

OrdersReferencing(o) == {id \in DOMAIN orders : orders[id].offerId = o}

\* C5: an offer with maxUses set never has usedCount above maxUses nor more
\* orders referencing it than maxUses, and once usedCount has reached
\* maxUses a created order references no such offer and, when its code is
\* that offer's code, carries discount 0 and no offer.
C5_UsageCapRespected ==
  /\ [](\A o \in DOMAIN offers :
          offers[o].maxUses # Null =>
            /\ offers[o].usedCount <= offers[o].maxUses
            /\ Cardinality(OrdersReferencing(o)) <= offers[o].maxUses)
  /\ [][\A o \in DOMAIN offers :
          /\ offers[o].maxUses # Null
          /\ offers[o].usedCount >= offers[o].maxUses
          /\ last'.op = "orderPost"
          /\ last'.res = "created"
          => /\ \A id \in NewOrderIds : orders'[id].offerId # o
             /\ offers'[o].usedCount = offers[o].usedCount
             /\ toUpperCase(last'.code) = offers[o].code =>
                  \A id \in NewOrderIds :
                     orders'[id].offerId = NoOffer /\ orders'[id].discount = 0]_vars

\* An order was created with the code of an active offer, inside its window
\* and over its minAmount, after the offer's uses were exhausted.
C5_Witness ==
  /\ last.op = "orderPost"
  /\ last.res = "created"
  /\ last.cartTotal = Num(100)
  /\ last.calc.offer = NoOffer
  /\ \E o \in DOMAIN offers :
        /\ offers[o].code = toUpperCase(last.code)
        /\ offers[o].isActive
        /\ offers[o].startsAt <= now /\ now <= offers[o].endsAt
        /\ offers[o].maxUses = 1
        /\ offers[o].usedCount = 1

C8_FreeShippingReached ==
  \E id \in DOMAIN orders :
     /\ orders[id].subtotal = 5000
     /\ orders[id].offerId # NoOffer
     /\ offers[orders[id].offerId].type = "FREE_SHIPPING"
     /\ orders[id].shipping = 599

\* C10: usedCount starts at 0, grows by exactly 1 in a step that creates an
\* order referencing the offer and is changed by no other step.
C10_UsageCountsApplications ==
  [][\A o \in DOMAIN offers' :
       IF o \in DOMAIN offers
         THEN offers'[o].usedCount =
                offers[o].usedCount
                  + Cardinality({id \in NewOrderIds : orders'[id].offerId = o})
         ELSE offers'[o].usedCount = 0 /\ OrdersReferencing(o)' = {}]_vars

\* An offer has been applied, and its order then cancelled and deleted.
C10_Witness ==
  /\ last.op = "orderDelete"
  /\ last.res = "deleted"
  /\ \E o \in DOMAIN offers : offers[o].usedCount = 1 /\ OrdersReferencing(o) = {}

\* C6: the evaluator's result has finalPrice = subtotal - discount and
\* 0 <= discount <= subtotal, for every storable offer.
C6_DiscountWithinSubtotal ==
  last.op = "evaluate" =>
    /\ last.calc.finalPrice = last.cartTotal - last.calc.discount
    /\ last.calc.discount >= 0
    /\ last.calc.discount <= last.cartTotal

OffersCoded(code) == {o \in DOMAIN offers : offers[o].code = toUpperCase(code)}

C11_FailedReinstatementRejected ==
  [][/\ \A id \in DOMAIN orders \cap DOMAIN orders' :
          /\ orders[id].status = "CANCELLED"
          /\ ReinstateCheckFails(products, orders[id].items)
          => orders'[id].status = "CANCELLED"
     /\ last'.edge = "reinstate" /\ last'.res = "insufficient" =>
          products' = products /\ orders' = orders]_vars

\* C12: an order leaves the store only through a delete request made while
\* its status is CANCELLED; a delete request on an order in another status
\* is rejected and changes nothing; an accepted delete removes that one
\* order, with the items it owns, and leaves every other order as it was.
C12_DeleteOnlyCancelled ==
  [][/\ \A id \in DOMAIN orders \ DOMAIN orders' :
          /\ orders[id].status = "CANCELLED"
          /\ last'.op = "orderDelete"
          /\ last'.res = "deleted"
     /\ last'.op = "orderDelete" /\ last'.res = "notCancelled" =>
          /\ orders' = orders
          /\ products' = products
          /\ \E id \in DOMAIN orders : orders[id].status # "CANCELLED"
     /\ last'.op = "orderDelete" /\ last'.res = "deleted" =>
          \E id \in DOMAIN orders :
             /\ DOMAIN orders' = DOMAIN orders \ {id}
             /\ \A o \in DOMAIN orders' : orders'[o] = orders[o]]_vars

\* The cancelled order of two lines has been deleted while a SHIPPED order
\* stays in the store.
C12_Witness ==
  /\ last.op = "orderDelete"
  /\ last.res = "deleted"
  /\ nextOrderId = 3
  /\ \E id \in DOMAIN orders : orders[id].status = "SHIPPED"
  /\ \E p \in DOMAIN products : products[p].stock = InitStock

\* A delete request on a SHIPPED order has been rejected.
C12_RejectedReached ==
  /\ last.op = "orderDelete"
  /\ last.res = "notCancelled"
  /\ \E id \in DOMAIN orders : orders[id].status = "SHIPPED"

\* C13: with the manual stock edits included (inventory add, subtract and
\* set, bulk updateStock, product update), no product ever has a negative
\* stock, whatever integer quantity the edit carries.
C13_ManualEditsKeepStockNonNegative ==
  ~ \E p \in DOMAIN products : products[p].stock < 0

\* The checks of the evaluator other than the code: active, inside the
\* window, under the usage cap, at or over minAmount, not scoped to products.
OtherwiseEligible(o, cartTotal, t) ==
  /\ o.isActive
  /\ o.startsAt <= t /\ t <= o.endsAt
  /\ (o.maxUses = Null \/ o.usedCount < o.maxUses)
  /\ (o.minAmount = Null \/ cartTotal >= o.minAmount)
  /\ o.productIds = {}

\* C14: an evaluation whose request code equals the code of a stored,
\* otherwise eligible offer up to letter case matches an offer of that code
\* and returns what the evaluation with the stored code itself returns.
C14_CaseInsensitiveLookup ==
  last.op = "evaluate" =>
    \A o \in DOMAIN offers :
       /\ toUpperCase(offers[o].code) = toUpperCase(last.code)
       /\ OtherwiseEligible(offers[o], last.cartTotal, now)
       => /\ last.calc.offer # NoOffer
          /\ toUpperCase(offers[last.calc.offer].code) = toUpperCase(last.code)
          /\ last.calc = validateAndApplyOffer(offers, offers[o].code, last.cartTotal,
                                               <<>>, now)

\* C15: no two reviews share a user and a product, and a create-review
\* request by a user who has reviewed the product is rejected without
\* changing the reviews or the product's rating and reviewCount.
C15_OneReviewPerUserAndProduct ==
  /\ [](\A r1 \in reviews, r2 \in reviews :
          r1.userId = r2.userId /\ r1.productId = r2.productId => r1 = r2)
  /\ [][last'.op = "reviewPost" =>
          /\ \A r \in reviews' \ reviews :
                ~ \E x \in reviews : x.userId = r.userId /\ x.productId = r.productId
          /\ last'.res = "created" => Cardinality(reviews') = Cardinality(reviews) + 1
          /\ last'.res = "duplicate" =>
                /\ reviews' = reviews
                /\ products' = products
                /\ \E x \in reviews : x.userId = authUser]_vars

\* A second review of p1 by u1, with another rating, has been rejected while
\* p1 carries the reviews of two users.
C15_Witness ==
  /\ last.op = "reviewPost"
  /\ last.res = "duplicate"
  /\ authUser = "u1"
  /\ products["p1"].reviewCount = 2
  /\ products["p2"].reviewCount = 0
  /\ \E r \in reviews : r.userId = "u1" /\ r.productId = "p1" /\ r.rating = 2

\* C16: a successful review creation adds one review and leaves the reviewed
\* product with reviewCount = the number of its active reviews and
\* rating * reviewCount = the sum of their ratings (rating 0 when there is
\* none); the rating and reviewCount of every other product stay as they were.
C16_RatingIsMeanOfActiveReviews ==
  [][last'.op = "reviewPost" /\ last'.res = "created" =>
       \E r \in reviews' \ reviews :
          LET active == {x \in reviews' : x.productId = r.productId /\ x.isActive}
              product == products'[r.productId]
          IN /\ reviews' = reviews \cup {r}
             /\ product.reviewCount = Cardinality(active)
             /\ product.rating.num * product.reviewCount
                  = SumRatings(active) * product.rating.den
             /\ product.rating.den > 0
             /\ active = {} => product.rating = NoRating
             /\ \A p \in DOMAIN products \ {r.productId} :
                   /\ products'[p].rating = products[p].rating
                   /\ products'[p].reviewCount = products[p].reviewCount]_vars

\* p1 carries the ratings 2 and 5 and the mean 7/2, p2 the rating 5.
C16_Witness ==
  /\ last.op = "reviewPost"
  /\ last.res = "created"
  /\ products["p1"].reviewCount = 2
  /\ products["p1"].rating = [num |-> 7, den |-> 2]
  /\ products["p2"].reviewCount = 1
  /\ products["p2"].rating = [num |-> 5, den |-> 1]

\* C17: every order item refers to an existing product; a product that an
\* order item refers to is never removed: the product delete deactivates it
\* and keeps it, and a bulk delete naming such a product removes nothing.
C17_ReferencedProductsKept ==
  /\ [](\A id \in DOMAIN orders : \A i \in DOMAIN orders[id].items :
          orders[id].items[i].productId \in DOMAIN products)
  /\ [][/\ \A p \in DOMAIN products \ DOMAIN products' :
             ~ \E id \in DOMAIN orders :
                  \E i \in DOMAIN orders[id].items : orders[id].items[i].productId = p
        /\ last'.op = "productDelete" /\ last'.res = "deactivated" =>
             /\ DOMAIN products' = DOMAIN products
             /\ \E p \in DOMAIN products :
                   /\ products' = [products EXCEPT ![p].isActive = FALSE]
                   /\ \E id \in DOMAIN orders : p \in ProductsOf(orders[id].items)
        /\ last'.op = "bulkDelete" /\ last'.res = "inOrders" =>
             products' = products]_vars

\* p2 has been deleted, and the delete of p1, which only a cancelled order
\* refers to, has deactivated it.
C17_Witness ==
  /\ last.op = "productDelete"
  /\ last.res = "deactivated"
  /\ DOMAIN products = {"p1"}
  /\ ~products["p1"].isActive
  /\ \A id \in DOMAIN orders : orders[id].status = "CANCELLED"

\* A bulk delete naming a product in an order and a product in none has been
\* rejected.
C17_BulkRejectedReached ==
  /\ last.op = "bulkDelete"
  /\ last.res = "inOrders"
  /\ \E p \in DOMAIN products : ~ \E id \in DOMAIN orders : p \in ProductsOf(orders[id].items)

\* The steps of the lifecycle PENDING -> PROCESSING -> SHIPPED -> DELIVERED.
ChainSteps ==
  {<<"PENDING", "PROCESSING">>, <<"PROCESSING", "SHIPPED">>, <<"SHIPPED", "DELIVERED">>}

\* C18 as stated: whenever the status of an order changes, it changes by one step of
\* the chain PENDING -> PROCESSING -> SHIPPED -> DELIVERED or to CANCELLED.
C18_StatusFollowsChain ==
  [][\A id \in DOMAIN orders \cap DOMAIN orders' :
       orders'[id].status # orders[id].status =>
          \/ orders'[id].status = "CANCELLED"
          \/ <<orders[id].status, orders'[id].status>> \in ChainSteps]_vars

\* C18 as amended: the status of an order is always one of the five of the
\* enum, a new order is PENDING, and the status changes only in an accepted
\* update request; a refused update (status outside the enum, order not
\* found, stock insufficient for a reinstatement) changes no order.  The
\* order of the chain is not enforced.
C18_StatusSetByAcceptedUpdate ==
  /\ [](\A id \in DOMAIN orders : orders[id].status \in Statuses)
  /\ [][/\ \A id \in DOMAIN orders' \ DOMAIN orders : orders'[id].status = "PENDING"
        /\ \A id \in DOMAIN orders \cap DOMAIN orders' :
              orders'[id].status # orders[id].status =>
                 /\ last'.op \in {"orderPut", "adminOrderPut"}
                 /\ last'.res = "updated"
                 /\ requireAdmin(authUser)
        /\ last'.op \in {"orderPut", "adminOrderPut"} /\ last'.res # "updated" =>
              orders' = orders /\ products' = products]_vars

\* An update has been accepted while one order is DELIVERED and the other
\* back in PENDING with its stock taken.
C18_Witness ==
  /\ last.op = "orderPut"
  /\ last.res = "updated"
  /\ last.edge = "move"
  /\ DOMAIN orders = {1, 2}
  /\ orders[1].status = "DELIVERED"
  /\ orders[2].status = "PENDING"

\* The requests on endpoints the API documentation marks (Admin).
AdminOps ==
  {"offerPost", "offerPut", "productPut", "productDelete",
   "orderPut", "adminOrderPut", "orderDelete"}

\* C19: a request on an (Admin) endpoint that carries no principal, or one
\* whose role is not ADMIN, leaves products, orders, offers and reviews as
\* they were.
C19_AdminEndpointsNeedAdmin ==
  [][last'.op \in AdminOps /\ ~requireAdmin(authUser) =>
       UNCHANGED <<products, orders, nextOrderId, offers, nextOfferId, reviews>>]_vars

\* Sum of the quantities of product p over the orders of the store.
OrderedQty(p) ==
  SumSeq([id \in 1..MaxOrders |->
            IF id \in DOMAIN orders THEN QtyOf(orders[id].items, p) ELSE 0])

\* C20: every order creation that passed the stock check writes its order
\* and decrements the stock by the full quantity, whatever the stock has
\* become since the check: the stock is the initial stock minus all ordered
\* quantities, also when that is below 0.
C20_StaleCheckOverdraws ==
  /\ [](\A p \in DOMAIN products : products[p].stock = InitStock - OrderedQty(p))
  /\ [][last'.op = "orderPostWrite" =>
          \E r \in DOMAIN inflight :
             /\ DOMAIN inflight' = DOMAIN inflight \ {r}
             /\ \A id \in NewOrderIds : orders'[id].items = OrderItems(inflight[r].items)
             /\ Cardinality(NewOrderIds) = 1]_vars

\* Two orders for p1 with quantities q1 <= s, q2 <= s, q1 + q2 > s are both
\* stored and the stock of p1 is s - q1 - q2 < 0.
C20_Witness ==
  /\ DOMAIN orders = {1, 2}
  /\ inflight = EmptyFunction
  /\ products["p1"].stock < 0
  /\ LET q1 == QtyOf(orders[1].items, "p1")
         q2 == QtyOf(orders[2].items, "p1")
     IN /\ q1 <= InitStock /\ q2 <= InitStock /\ q1 + q2 > InitStock
        /\ products["p1"].stock = InitStock - q1 - q2

\* C21: an update to CANCELLED that read a status other than CANCELLED
\* restores the stock of every item when it writes, whatever the stored
\* status has become since: a second cancellation in flight restores the
\* quantities a second time.
C21_StaleGuardRestoresTwice ==
  [][\A r \in DOMAIN inflight \ DOMAIN inflight' :
       /\ inflight[r].op = "update"
       /\ inflight[r].req = "CANCELLED"
       /\ inflight[r].existingOrder.status # "CANCELLED"
       => /\ products' = AdjustStock(products, inflight[r].existingOrder.items, 1)
          /\ orders'[inflight[r].id].status = "CANCELLED"]_vars

\* The only order, for 1 of p1, is CANCELLED, no request is in flight and the
\* stock of p1 is its initial stock plus the order's quantity.
C21_Witness ==
  /\ DOMAIN orders = {1}
  /\ orders[1].status = "CANCELLED"
  /\ inflight = EmptyFunction
  /\ last.op = "adminOrderPutWrite"
  /\ last.edge = "cancel"
  /\ products["p1"].stock = InitStock + QtyOf(orders[1].items, "p1")

\* C22: an accepted update that moves an order from CANCELLED to another
\* status decrements the stock of each item's product by the item's
\* quantity, on both update endpoints.
C22_ReinstatementDeductsStock ==
  [][\A id \in DOMAIN orders \cap DOMAIN orders' :
       orders[id].status = "CANCELLED" /\ orders'[id].status # "CANCELLED" =>
          products' = AdjustStock(products, orders[id].items, -1)]_vars

\* C23: an accepted update that carries no status, or the status the order
\* already has, changes the stock of no product, whatever the order's
\* status.
C23_StatuslessUpdateKeepsStock ==
  [][/\ last'.op \in {"orderPut", "adminOrderPut"}
     /\ last'.res = "updated"
     /\ last'.edge \in {"silent", "recancel", "move"}
     /\ orders' = orders
     => products' = products]_vars

\* C24: order creation is not atomic. When a decrement fails after the order
\* was stored, the request ends with an error and changes nothing more: the
\* order stays stored as it was, the stock keeps the decrements made for the
\* earlier items, the later items are never decremented and no offer's
\* usedCount moves. Each turn of the loop that succeeds decrements the stock
\* of the one item it is about.
C24_FailedDecrementLeavesPartialOrder ==
  [][/\ \A r \in DOMAIN inflight \ DOMAIN inflight' :
          inflight[r].op = "decrement" /\ inflight[r].rest # <<>> =>
             /\ last'.res = "failed"
             /\ inflight[r].id \in DOMAIN orders'
             /\ orders' = orders
             /\ orders'[inflight[r].id].status # "CANCELLED"
             /\ products' = products
             /\ offers' = offers
     /\ \A r \in DOMAIN inflight \cap DOMAIN inflight' :
          /\ inflight[r].op = "decrement"
          /\ inflight'[r] # inflight[r]
          => LET item == Head(inflight[r].rest)
             IN /\ inflight'[r].rest = Tail(inflight[r].rest)
                /\ \A p \in DOMAIN products :
                     products'[p].stock =
                       products[p].stock - (IF p = item.productId THEN item.quantity ELSE 0)
                /\ orders' = orders /\ offers' = offers]_vars

\* An order for one p1 and one p2 under the offer's code failed at its second
\* decrement: it is stored and pending, p1 is decremented, p2 is not, and the
\* offer it references has no use counted.
C24_Witness ==
  /\ inflight = EmptyFunction
  /\ last.op = "orderPostThrow"
  /\ DOMAIN orders = {1}
  /\ orders[1].status = "PENDING"
  /\ Len(orders[1].items) = 2
  /\ orders[1].offerId = 1
  /\ offers[1].usedCount = 0
  /\ products["p1"].stock = InitStock - 1
  /\ products["p2"].stock = InitStock

\* An offer of the request's code that is active, inside its window, under
\* its usage cap, at or under the subtotal with its minAmount, and open to
\* every product or scoped to one in the cart.
Applicable(offs, code, subtotal, cartProducts, t) ==
  \E o \in DOMAIN offs :
     /\ toUpperCase(offs[o].code) = toUpperCase(code)
     /\ offs[o].isActive
     /\ offs[o].startsAt <= t /\ t <= offs[o].endsAt
     /\ (offs[o].maxUses = Null \/ offs[o].usedCount < offs[o].maxUses)
     /\ (offs[o].minAmount = Null \/ subtotal >= offs[o].minAmount)
     /\ (offs[o].productIds = {} \/ offs[o].productIds \cap cartProducts # {})

\* C25: a create-order request whose code matches no applicable offer is
\* served like one without a code: the order is created with discount 0 and
\* no offerId, and no offer changes. No request is turned down over its offer
\* code: the only requests turned down are those the stock does not cover.
\* The evaluator on its own changes nothing that is stored.
C25_IneligibleCodeOrdersAtFullPrice ==
  [][/\ last'.op = "orderPost" /\ last'.res # "created"
        => /\ last'.res = "insufficient"
           /\ \E p \in DOMAIN products : products[p].stock = 0
     /\ last'.op = "orderPost" /\ last'.res = "created" /\ last'.code # NoCode
        => LET new == orders'[nextOrderId]
           IN ~Applicable(offers, last'.code, new.subtotal, ProductsOf(new.items), now)
              => /\ new.discount = 0
                 /\ new.offerId = NoOffer
                 /\ new.total = Total(new.subtotal, 0)
                 /\ offers' = offers
     /\ last'.op = "evaluate"
        => UNCHANGED <<products, orders, nextOrderId, offers, nextOfferId, reviews>>]_vars

\* An order for p1 under the code of an offer scoped to p2 has been created
\* at full price, the offer unused.
C25_Witness ==
  /\ last.op = "orderPost"
  /\ last.code = <<"A">>
  /\ 1 \in DOMAIN offers /\ offers[1].productIds = {"p2"}
  /\ offers[1].isActive /\ now <= offers[1].endsAt
  /\ offers[1].usedCount = 0
  /\ DOMAIN orders = {1}
  /\ ProductsOf(orders[1].items) = {"p1"}
  /\ orders[1].discount = 0
  /\ orders[1].offerId = NoOffer

\* C26: every offer with a usage cap has 0 <= usedCount <= maxUses, in every
\* state reached by offer creations, offer updates and order creations
\* served one at a time; an offer update never leaves maxUses under the
\* offer's usedCount.
C26_UsedCountWithinCap ==
  \A o \in DOMAIN offers :
     offers[o].maxUses # Null =>
        0 <= offers[o].usedCount /\ offers[o].usedCount <= offers[o].maxUses

\* C27: the unit price of every item of a new order is the catalogue price of
\* its product at the time of the creation, and the order's subtotal is the
\* sum over its items of that price times the quantity, whatever price the
\* request carries.
C27_PriceIsCatalogueSnapshot ==
  [][\A id \in DOMAIN orders' \ DOMAIN orders :
       LET items == orders'[id].items
       IN /\ \A i \in DOMAIN items :
               items[i].price = products[items[i].productId].price
          /\ orders'[id].subtotal =
               SumSeq([i \in DOMAIN items |->
                         products[items[i].productId].price * items[i].quantity])]_vars

\* C28: the items of every stored order are on pairwise distinct products; a
\* create-order request that names a product on two lines is rejected with
\* nothing changed; so the quantity a new order takes of any product is
\* within the stock the product had when the order was created.
C28_OrderLinesOnDistinctProducts ==
  /\ [](\A id \in DOMAIN orders :
          \A i \in DOMAIN orders[id].items, j \in DOMAIN orders[id].items :
             orders[id].items[i].productId = orders[id].items[j].productId => i = j)
  /\ [][/\ \A id \in DOMAIN orders' \ DOMAIN orders :
             \A p \in DOMAIN products :
                QtyOf(orders'[id].items, p) <= products[p].stock
        /\ last'.op = "orderPost" /\ last'.res = "unavailable"
           => UNCHANGED <<products, orders, nextOrderId, offers>>]_vars

\* A request naming a product twice has been rejected where an order for one
\* p1 stands and the stock would have covered both lines together.
C28_Witness ==
  /\ last.op = "orderPost"
  /\ last.res = "unavailable"
  /\ DOMAIN orders = {1}
  /\ orders[1].status = "PENDING"
  /\ products["p1"].stock = InitStock - 1
  /\ products["p2"].stock = InitStock
  /\ \A p \in DOMAIN products : products[p].isActive /\ products[p].stock >= 1

\* C29: a create-order request that found its offer under the usage cap
\* applies it when it writes, whatever the usage has become since: its order
\* references the offer with the discount read, and usedCount grows by 1. So
\* two requests that interleave can take an offer one use over its cap.
C29_StaleCapCheckOverruns ==
  [][\A r \in DOMAIN inflight \ DOMAIN inflight' :
       inflight[r].op = "create" /\ inflight[r].offerResult.offer # NoOffer =>
          LET o == inflight[r].offerResult.offer
          IN /\ nextOrderId \in DOMAIN orders'
             /\ orders'[nextOrderId].offerId = o
             /\ orders'[nextOrderId].discount = inflight[r].offerResult.discount
             /\ offers'[o].usedCount = offers[o].usedCount + 1]_vars

\* The offer, capped at one use and unused when both requests evaluated it,
\* has usedCount = maxUses + 1 and two orders referencing it.
C29_Witness ==
  /\ inflight = EmptyFunction
  /\ 1 \in DOMAIN offers
  /\ offers[1].maxUses # Null
  /\ offers[1].usedCount = offers[1].maxUses + 1
  /\ Cardinality(OrdersReferencing(1)) = 2
  /\ \A id \in OrdersReferencing(1) : orders[id].discount > 0

\* C30: the inventory update writes, as an absolute value, the stock it
\* computed from the product it read, and touches no other product; what an
\* order creation or cancellation did to that stock between the read and the
\* write is overwritten.
C30_InventoryWritesStaleStock ==
  [][\A r \in DOMAIN inflight \ DOMAIN inflight' :
       inflight[r].op = "inventory" =>
          \A p \in DOMAIN products :
             products'[p].stock =
               IF p = inflight[r].productId
                 THEN NewStock(inflight[r].product.stock, inflight[r].quantity,
                               inflight[r].operation)
                 ELSE products[p].stock]_vars

\* An inventory update that adds 1 to p1 has overwritten the decrement of the
\* one order, pending and for one p1, created after it read the product: the
\* stock is the initial stock plus 1.
C30_Witness ==
  /\ inflight = EmptyFunction
  /\ last.op = "inventoryPostWrite"
  /\ last.res = "add"
  /\ last.edge = "overwrite"
  /\ DOMAIN orders = {1}
  /\ orders[1].status = "PENDING"
  /\ QtyOf(orders[1].items, "p1") = 1
  /\ products["p1"].stock = InitStock + 1

====
